---- MODULE Spec2Model ----
(***************************************************************************)
(* The task-board API service: the four handlers of /api/tasks over the    *)
(* process-local list (inMemoryTasks) and over the Task collection         *)
(* (Mongoose model Task), selected once at startup by useDatabase.         *)
(*                                                                         *)
(* JavaScript values are records [t, v]: t is the value's kind             *)
(* ("undefined", "null", "number", "string", "date") and v its text as a   *)
(* sequence of one-character strings, so that String.prototype.trim is     *)
(* computed, not assumed.  Instants (Date.now(), createdAt) are            *)
(* milliseconds, natural numbers.                                          *)
(*                                                                         *)
(* The Board View (App) is the client of the service: its useState hooks   *)
(* are variables, each of its four calls is split at its await into the    *)
(* step that issues the fetch and the step that handles the response or    *)
(* the rejection, and the fetches under way are held in inflight, to be    *)
(* answered and to settle in any order.  Its completion rate is computed   *)
(* in the arithmetic of the Number type.                                   *)
(***************************************************************************)
EXTENDS Integers, Sequences, FiniteSets, TLC

VARIABLES useDatabase, inMemoryTasks, collection, clock, nextOid, req, res,
          boardTasks, form, statusFilter, priorityFilter, loading, error, inflight

\* the state of the service and of the request it handled last
server == <<useDatabase, inMemoryTasks, collection, clock, nextOid, req, res>>

\* the state of the Board View: its tasks (boardTasks: the handlers' locals
\* hold the name tasks), the four fields of the form, the two filters, the
\* busy flag, the last error, and the fetches that have not settled yet
client == <<boardTasks, form, statusFilter, priorityFilter, loading, error, inflight>>

vars == <<server, client>>

(* ------------------------------ bounds ------------------------------ *)

\* most tasks held by a store at once
MaxTasks == 2
\* last reading of the millisecond clock
MaxClock == 2
\* most ObjectIds the driver hands out in one run
MaxOid == 2

(* -------------------------- JavaScript values ------------------------ *)

Undefined == [t |-> "undefined", v |-> <<>>]
Null == [t |-> "null", v |-> <<>>]
Str(s) == [t |-> "string", v |-> s]
Num(s) == [t |-> "number", v |-> s]
DateOf(s) == [t |-> "date", v |-> s]

\* typeof x === "string"
IsString(x) == x.t = "string"

\* ToBoolean: undefined, null, "" and 0 are falsy; a Date is an object
Truthy(x) ==
    CASE x.t = "undefined" -> FALSE
      [] x.t = "null" -> FALSE
      [] x.t = "string" -> x.v # <<>>
      [] x.t = "number" -> x.v # <<"0">>
      [] OTHER -> TRUE

IsWhiteSpace(c) == c = " "

RECURSIVE TrimStart(_)
TrimStart(s) ==
    IF s = <<>> THEN <<>>
    ELSE IF IsWhiteSpace(Head(s)) THEN TrimStart(Tail(s))
    ELSE s

RECURSIVE TrimEnd(_)
TrimEnd(s) ==
    IF s = <<>> THEN <<>>
    ELSE IF IsWhiteSpace(s[Len(s)]) THEN TrimEnd(SubSeq(s, 1, Len(s) - 1))
    ELSE s

\* String.prototype.trim, on a string value
trim(x) == Str(TrimEnd(TrimStart(x.v)))

\* a || b
OrElse(a, b) == IF Truthy(a) THEN a ELSE b

\* the date strings Date's parser accepts, among the texts the requests carry
ParsableDates == {<<"2", "0", "2", "4">>}

\* new Date(x), for a truthy x; an Invalid Date has getTime() NaN
NewDate(x) ==
    IF (x.t = "string" /\ x.v \in ParsableDates) \/ x.t = "number"
    THEN DateOf(x.v)
    ELSE DateOf(<<"N", "a", "N">>)

IsNaNTime(d) == d = DateOf(<<"N", "a", "N">>)

\* JSON.stringify of a field: a Date becomes its ISO string, undefined omits the key
ToJSONValue(x) == IF x.t = "date" THEN Str(x.v) ELSE x

(* ------------------------------ the enums --------------------------- *)

low == Str(<<"l", "o", "w">>)
medium == Str(<<"m", "e", "d", "i", "u", "m">>)
high == Str(<<"h", "i", "g", "h">>)
todo == Str(<<"t", "o", "d", "o">>)
inProgress == Str(<<"i", "n", "-", "p", "r", "o", "g", "r", "e", "s", "s">>)
done == Str(<<"d", "o", "n", "e">>)

allowedPriority == {low, medium, high}
allowedStatus == {todo, inProgress, done}

(* ------------------------------ requests ----------------------------- *)

\* req.body of POST and PATCH: the five keys the handlers destructure
Body(title, description, priority, status, dueDate) ==
    [title |-> title, description |-> description, priority |-> priority,
     status |-> status, dueDate |-> dueDate]

NoBody == Body(Undefined, Undefined, Undefined, Undefined, Undefined)
NoQuery == [status |-> Undefined, priority |-> Undefined]

Request(method, id, body, query) ==
    [method |-> method, id |-> id, body |-> body, query |-> query]

(* ------------------------------ responses ---------------------------- *)

\* res.status(c).json(task), res.json([...]), res.status(c).json({error}), res.status(c).end()
SendTask(code, task) == [status |-> code, kind |-> "task", tasks |-> <<task>>, error |-> ""]
SendList(tasks) == [status |-> 200, kind |-> "list", tasks |-> tasks, error |-> ""]
SendError(code, message) == [status |-> code, kind |-> "error", tasks |-> <<>>, error |-> message]
SendEmpty(code) == [status |-> code, kind |-> "empty", tasks |-> <<>>, error |-> ""]

\* a task as the handlers serialise it: the seven keys of the wire shape
Wire(id, t) ==
    [id |-> id, title |-> ToJSONValue(t.title), description |-> ToJSONValue(t.description),
     priority |-> ToJSONValue(t.priority), status |-> ToJSONValue(t.status),
     dueDate |-> ToJSONValue(t.dueDate), createdAt |-> t.createdAt]

\* res.json(task) of an entry of inMemoryTasks
WireOfTask(t) == Wire(t.id, t)

\* the { id: task._id.toString(), ... } literal built from a document
WireOfDoc(d) == Wire(d._id, d)

\* res.json(tasks) of the in-memory branch
WireOfTasks(tasks) == [i \in 1..Len(tasks) |-> WireOfTask(tasks[i])]

\* tasks.map((task) => ({ id: task._id.toString(), ... }))
WireOfDocs(docs) == [i \in 1..Len(docs) |-> WireOfDoc(docs[i])]

(* ------------------------------ identifiers -------------------------- *)

\* Date.now().toString()
ClockId(t) == ToString(t)

\* the n-th ObjectId the driver generates, as _id.toString() prints it
ObjectId(n) == "oid" \o ToString(n)

\* whether Mongoose casts the string to an ObjectId (otherwise a CastError is thrown)
IsObjectId(id) == \E n \in 1..MaxOid : id = ObjectId(n)

\* Array.prototype.findIndex: the first index whose element has the id, 0 for -1
FindIndex(tasks, id) ==
    IF \E i \in 1..Len(tasks) : tasks[i].id = id
    THEN CHOOSE i \in 1..Len(tasks) :
            /\ tasks[i].id = id
            /\ \A j \in 1..(i - 1) : tasks[j].id # id
    ELSE 0

\* the document findById* resolves, as an index into the collection, 0 for null
FindById(docs, id) ==
    IF \E i \in 1..Len(docs) : docs[i]._id = id
    THEN CHOOSE i \in 1..Len(docs) : docs[i]._id = id
    ELSE 0

\* Array.prototype.splice(index, 1)
Splice(s, index) == SubSeq(s, 1, index - 1) \o SubSeq(s, index + 1, Len(s))

(* ------------------------------ POST /api/tasks ---------------------- *)

\* the title check without its trim: a blank title passes
TitleRejectedUntrimmed(title) ==
    \/ ~Truthy(title)
    \/ ~IsString(title)

\* !title || typeof title !== "string" || !title.trim()
TitleRejected(title) ==
    \/ ~Truthy(title)
    \/ ~IsString(title)
    \/ ~Truthy(trim(title))

PayloadDescription(description) ==
    IF Truthy(description) /\ IsString(description) THEN trim(description) ELSE Undefined

\* the priority check without its includes: any truthy value passes
PayloadPriorityUnchecked(priority) == IF Truthy(priority) THEN priority ELSE Undefined

PayloadPriority(priority) ==
    IF Truthy(priority) /\ priority \in allowedPriority THEN priority ELSE Undefined

PayloadStatus(status) ==
    IF Truthy(status) /\ status \in allowedStatus THEN status ELSE Undefined

PayloadDueDate(dueDate) ==
    IF Truthy(dueDate) /\ ~IsNaNTime(NewDate(dueDate)) THEN NewDate(dueDate) ELSE Undefined

\* the payload object of the create handler; Undefined marks a key that is not set
Payload(body) ==
    [title |-> trim(body.title),
     description |-> PayloadDescription(body.description),
     priority |-> PayloadPriority(body.priority),
     status |-> PayloadStatus(body.status),
     dueDate |-> PayloadDueDate(body.dueDate)]

\* the task literal of the in-memory branch; new Date() and Date.now() are two
\* consecutive readings of the clock in one synchronous handler, taken as one instant
NewTask(payload, now) ==
    [id |-> ClockId(now),
     title |-> payload.title,
     description |-> OrElse(payload.description, Str(<<>>)),
     priority |-> OrElse(payload.priority, medium),
     status |-> OrElse(payload.status, todo),
     dueDate |-> OrElse(payload.dueDate, Null),
     createdAt |-> now]

\* a path's default from taskSchema, applied when the payload leaves the key out
SchemaDefault(x, default) == IF x = Undefined THEN default ELSE x

\* Task.create(payload): the schema's setters and defaults, a fresh _id, timestamps
NewDoc(payload, oid, now) ==
    [_id |-> ObjectId(oid),
     title |-> trim(payload.title),
     description |-> IF payload.description = Undefined THEN Undefined
                     ELSE trim(payload.description),
     priority |-> SchemaDefault(payload.priority, medium),
     status |-> SchemaDefault(payload.status, todo),
     dueDate |-> payload.dueDate,
     createdAt |-> now]

\* Array.prototype.push in place of unshift: the new task goes last
Push(tasks, task) == tasks \o <<task>>

\* Array.prototype.unshift
Unshift(tasks, task) == <<task>> \o tasks

PostTask(body) ==
    /\ req' = Request("POST", "", body, NoQuery)
    /\ IF TitleRejected(body.title)
       THEN /\ res' = SendError(400, "title is required")
            /\ UNCHANGED <<useDatabase, inMemoryTasks, collection, clock, nextOid>>
       ELSE IF ~useDatabase
       THEN /\ Len(inMemoryTasks) < MaxTasks
            /\ LET task == NewTask(Payload(body), clock)
               IN /\ inMemoryTasks' = Unshift(inMemoryTasks, task)
                  /\ res' = SendTask(201, WireOfTask(task))
            /\ UNCHANGED <<useDatabase, collection, clock, nextOid>>
       ELSE /\ nextOid <= MaxOid
            /\ LET task == NewDoc(Payload(body), nextOid, clock)
               IN /\ collection' = Append(collection, task)
                  /\ res' = SendTask(201, WireOfDoc(task))
            /\ nextOid' = nextOid + 1
            /\ UNCHANGED <<useDatabase, inMemoryTasks, clock>>

(* ------------------------------ PATCH /api/tasks/:id ----------------- *)

UpdateTitle(title) == IF IsString(title) THEN trim(title) ELSE Undefined

UpdateDescription(description) ==
    IF IsString(description) THEN trim(description) ELSE Undefined

\* the update object of the patch handler; Undefined marks a key that is not set
Update(body) ==
    [title |-> UpdateTitle(body.title),
     description |-> UpdateDescription(body.description),
     priority |-> PayloadPriority(body.priority),
     status |-> PayloadStatus(body.status),
     dueDate |-> PayloadDueDate(body.dueDate)]

\* one key of { ...current, ...update }, and of the $set findByIdAndUpdate applies
Spread(current, update) == IF update = Undefined THEN current ELSE update

\* { ...current, ...update }
Merge(current, update) ==
    [current EXCEPT !.title = Spread(@, update.title),
                    !.description = Spread(@, update.description),
                    !.priority = Spread(@, update.priority),
                    !.status = Spread(@, update.status),
                    !.dueDate = Spread(@, update.dueDate)]

PatchTask(id, body) ==
    /\ req' = Request("PATCH", id, body, NoQuery)
    /\ IF ~useDatabase
       THEN LET index == FindIndex(inMemoryTasks, id)
            IN IF index = 0
               THEN /\ res' = SendError(404, "Task not found")
                    /\ UNCHANGED inMemoryTasks
               ELSE LET updated == Merge(inMemoryTasks[index], Update(body))
                    IN /\ inMemoryTasks' = [inMemoryTasks EXCEPT ![index] = updated]
                       /\ res' = SendTask(200, WireOfTask(updated))
       ELSE /\ UNCHANGED inMemoryTasks
    /\ IF useDatabase
       THEN IF ~IsObjectId(id)
            THEN /\ res' = SendError(500, "Failed to update task")
                 /\ UNCHANGED collection
            ELSE LET index == FindById(collection, id)
                 IN IF index = 0
                    THEN /\ res' = SendError(404, "Task not found")
                         /\ UNCHANGED collection
                    ELSE LET task == Merge(collection[index], Update(body))
                         IN /\ collection' = [collection EXCEPT ![index] = task]
                            /\ res' = SendTask(200, WireOfDoc(task))
       ELSE /\ UNCHANGED collection
    /\ UNCHANGED <<useDatabase, clock, nextOid>>

(* ------------------------------ DELETE /api/tasks/:id ---------------- *)

DeleteTask(id) ==
    /\ req' = Request("DELETE", id, NoBody, NoQuery)
    /\ IF ~useDatabase
       THEN LET index == FindIndex(inMemoryTasks, id)
            IN IF index = 0
               THEN /\ res' = SendError(404, "Task not found")
                    /\ UNCHANGED inMemoryTasks
               ELSE /\ inMemoryTasks' = Splice(inMemoryTasks, index)
                    /\ res' = SendEmpty(204)
       ELSE /\ UNCHANGED inMemoryTasks
    /\ IF useDatabase
       THEN IF ~IsObjectId(id)
            THEN /\ res' = SendError(500, "Failed to delete task")
                 /\ UNCHANGED collection
            ELSE LET index == FindById(collection, id)
                 IN IF index = 0
                    THEN /\ res' = SendError(404, "Task not found")
                         /\ UNCHANGED collection
                    ELSE /\ collection' = Splice(collection, index)
                         /\ res' = SendEmpty(204)
       ELSE /\ UNCHANGED collection
    /\ UNCHANGED <<useDatabase, clock, nextOid>>

(* ------------------------------ GET /api/tasks ----------------------- *)

\* the in-memory filter without its priority pass
FilterByStatusOnly(tasks, status, priority) ==
    IF Truthy(status)
    THEN SelectSeq(tasks, LAMBDA task : task.status = status)
    ELSE tasks

\* the two tasks.filter calls of the in-memory branch
Filter(tasks, status, priority) ==
    LET byStatus == IF Truthy(status)
                    THEN SelectSeq(tasks, LAMBDA task : task.status = status)
                    ELSE tasks
    IN IF Truthy(priority)
       THEN SelectSeq(byStatus, LAMBDA task : task.priority = priority)
       ELSE byStatus

\* whether a document matches the filter object built from the query
Matches(doc, status, priority) ==
    /\ Truthy(status) => doc.status = status
    /\ Truthy(priority) => doc.priority = priority

\* the orders sort({ createdAt: -1 }) may return the documents in: the server
\* leaves the order of documents with equal keys open
SortedByCreatedAtDesc(docs) ==
    LET n == Len(docs)
        perms == {p \in [1..n -> 1..n] : \A i, j \in 1..n : i # j => p[i] # p[j]}
        ordered == {p \in perms :
                      \A i \in 1..(n - 1) : docs[p[i]].createdAt >= docs[p[i + 1]].createdAt}
    IN {[i \in 1..n |-> docs[p[i]]] : p \in ordered}

GetTasks(status, priority) ==
    /\ req' = Request("GET", "", NoBody, [status |-> status, priority |-> priority])
    /\ IF ~useDatabase
       THEN res' = SendList(WireOfTasks(Filter(inMemoryTasks, status, priority)))
       ELSE \E tasks \in SortedByCreatedAtDesc(
                SelectSeq(collection, LAMBDA doc : Matches(doc, status, priority))) :
              res' = SendList(WireOfDocs(tasks))
    /\ UNCHANGED <<useDatabase, inMemoryTasks, collection, clock, nextOid>>

(* ------------------------------ the clock ---------------------------- *)

\* a millisecond passes between two requests
Tick ==
    /\ clock < MaxClock
    /\ clock' = clock + 1
    /\ UNCHANGED <<useDatabase, inMemoryTasks, collection, nextOid, req, res>>

(* ------------------------------ inputs ------------------------------- *)

urgent == Str(<<"u", "r", "g", "e", "n", "t">>)
bogus == Str(<<"b", "o", "g", "u", "s">>)

\* title absent, not a string, empty, blank, padded, plain
TitleInputs ==
    {Undefined, Num(<<"5">>), Str(<<>>), Str(<<" ">>), Str(<<" ", "a">>), Str(<<"b">>)}

\* bodies that carry a title at most
TitleBodies == {Body(t, Undefined, Undefined, Undefined, Undefined) : t \in TitleInputs}

\* priority and status, one supplied at a time, in and out of the enumerated sets
EnumPairs ==
    {<<Undefined, Undefined>>, <<high, Undefined>>, <<urgent, Undefined>>,
     <<Undefined, done>>, <<Undefined, bogus>>}

EnumPostBodies ==
    {Body(Str(<<"a">>), Undefined, e[1], e[2], Undefined) : e \in EnumPairs}

EnumPatchBodies == {Body(Undefined, Undefined, e[1], e[2], Undefined) : e \in EnumPairs}

\* the :id values requests carry: every id the store can hand out, and one it cannot
RequestIds ==
    IF useDatabase
    THEN {ObjectId(n) : n \in 1..MaxOid} \cup {"abc"}
    ELSE {ClockId(t) : t \in 1..MaxClock} \cup {"abc"}

(* ------------------------------ no response yet ---------------------- *)

NoResponse == [status |-> 0, kind |-> "none", tasks |-> <<>>, error |-> ""]

(* ------------------------------ the Board View ---------------------- *)

\* most fetches the Board View has under way at once
MaxInFlight == 2

\* the value of the first option of the two filter selects
all == Str(<<"a", "l", "l">>)

\* the form as useState leaves it, and as a confirmed create resets it
EmptyForm ==
    [title |-> Str(<<>>), description |-> Str(<<>>), priority |-> medium,
     dueDate |-> Str(<<>>)]

\* the URLSearchParams of loadTasks: a filter is sent unless it is "all"
LoadQuery(sf, pf) ==
    [status |-> IF sf # all THEN sf ELSE Undefined,
     priority |-> IF pf # all THEN pf ELSE Undefined]

\* a fetch under way: its request, the response once the service has sent it,
\* and (for reading the runs) the tasks the view held when it was issued
Fetch(request) == [req |-> request, res |-> NoResponse, before |-> boardTasks]

\* the opening of the four calls: setLoading(true); setError(""); fetch(...)
Issue(request) ==
    /\ Len(inflight) < MaxInFlight
    /\ loading' = TRUE
    /\ error' = ""
    /\ inflight' = Append(inflight, Fetch(request))

\* loadTasks up to its await, reading the filters of the render it runs in
loadTasks ==
    /\ Issue(Request("GET", "", NoBody, LoadQuery(statusFilter', priorityFilter')))
    /\ UNCHANGED <<boardTasks, form>>

\* onChange of the status select, and the effect the new value triggers
setStatusFilter(value) ==
    /\ value # statusFilter
    /\ statusFilter' = value
    /\ UNCHANGED priorityFilter
    /\ loadTasks
    /\ UNCHANGED server

\* onChange of the priority select, and the effect the new value triggers
setPriorityFilter(value) ==
    /\ value # priorityFilter
    /\ priorityFilter' = value
    /\ UNCHANGED statusFilter
    /\ loadTasks
    /\ UNCHANGED server

\* onChange of a field of the form: setTitle, setDescription, setPriority, setDueDate
setField(field, value) ==
    /\ form[field] # value
    /\ form' = [form EXCEPT ![field] = value]
    /\ UNCHANGED <<boardTasks, statusFilter, priorityFilter, loading, error, inflight>>
    /\ UNCHANGED server

\* handleCreateTask up to its await; the submit button is disabled while loading
handleCreateTask ==
    /\ ~loading
    /\ Truthy(trim(form.title))
    /\ Issue(Request("POST", "",
                     Body(form.title, form.description, form.priority, Undefined,
                          OrElse(form.dueDate, Undefined)),
                     NoQuery))
    /\ UNCHANGED <<boardTasks, form, statusFilter, priorityFilter>>
    /\ UNCHANGED server

\* updateTask(id, updates) up to its await
updateTask(id, updates) ==
    /\ Issue(Request("PATCH", id, updates, NoQuery))
    /\ UNCHANGED <<boardTasks, form, statusFilter, priorityFilter>>
    /\ UNCHANGED server

\* deleteTask(id) up to its await
deleteTask(id) ==
    /\ Issue(Request("DELETE", id, NoBody, NoQuery))
    /\ UNCHANGED <<boardTasks, form, statusFilter, priorityFilter>>
    /\ UNCHANGED server

\* the service handles the request of a fetch
Route(r) ==
    CASE r.method = "POST" -> PostTask(r.body)
      [] r.method = "PATCH" -> PatchTask(r.id, r.body)
      [] r.method = "DELETE" -> DeleteTask(r.id)
      [] r.method = "GET" -> GetTasks(r.query.status, r.query.priority)

\* a request reaches the service and its response is on the way back
Serve(i) ==
    /\ inflight[i].res = NoResponse
    /\ Route(inflight[i].req)
    /\ inflight' = [inflight EXCEPT ![i].res = res']
    /\ UNCHANGED <<boardTasks, form, statusFilter, priorityFilter, loading, error>>

\* response.ok
Ok(r) == r.status \in 200..299

\* the failure each call throws on a response it does not accept
FailureMessage(method) ==
    CASE method = "GET" -> "Failed to load tasks"
      [] method = "POST" -> "Failed to create task"
      [] method = "PATCH" -> "Failed to update task"
      [] method = "DELETE" -> "Failed to delete task"

\* a test that lets the 404 of a delete through
AcceptedNotFound(method, r) == Ok(r) \/ (method = "DELETE" /\ r.status = 404)

\* the test each call makes of its response before it throws
Accepted(method, r) == Ok(r) \/ (method = "DELETE" /\ r.status = 204)

\* the created task put last
PrependLast(created, current) == current \o <<created>>

\* [created, ...current]
Prepend(created, current) == <<created>> \o current

\* current.map((task) => (task.id === id ? updated : task))
Replace(current, id, updated) ==
    [k \in 1..Len(current) |-> IF current[k].id = id THEN updated ELSE current[k]]

\* current.filter((task) => task.id !== id)
Remove(current, id) == SelectSeq(current, LAMBDA task : task.id # id)

\* the tasks after the accepted response r of request q
Applied(q, r, current) ==
    CASE q.method = "GET" -> r.tasks
      [] q.method = "POST" -> Prepend(r.tasks[1], current)
      [] q.method = "PATCH" -> Replace(current, q.id, r.tasks[1])
      [] q.method = "DELETE" -> Remove(current, q.id)

\* the fetches still under way once the i-th has settled
Settled(i) == SubSeq(inflight, 1, i - 1) \o SubSeq(inflight, i + 1, Len(inflight))

\* a response arrives: the rest of the try block, or the catch, then the finally
Receive(i) ==
    /\ inflight[i].res # NoResponse
    /\ LET q == inflight[i].req
           r == inflight[i].res
       IN IF Accepted(q.method, r)
          THEN /\ boardTasks' = Applied(q, r, boardTasks)
               /\ form' = IF q.method = "POST" THEN EmptyForm ELSE form
               /\ UNCHANGED error
          ELSE /\ error' = FailureMessage(q.method)
               /\ UNCHANGED <<boardTasks, form>>
    /\ loading' = FALSE
    /\ inflight' = Settled(i)
    /\ UNCHANGED <<statusFilter, priorityFilter>>
    /\ UNCHANGED server

\* the fetch rejects (no connection, or the response is lost): catch, then finally
Reject(i) ==
    /\ error' = "Failed to fetch"
    /\ loading' = FALSE
    /\ inflight' = Settled(i)
    /\ UNCHANGED <<boardTasks, form, statusFilter, priorityFilter>>
    /\ UNCHANGED server

(* ------------------------------ the system --------------------------- *)

\* the service as it starts
InitServer ==
    /\ useDatabase \in BOOLEAN
    /\ inMemoryTasks = <<>>
    /\ collection = <<>>
    /\ clock = 1
    /\ nextOid = 1
    /\ req = Request("", "", NoBody, NoQuery)
    /\ res = NoResponse

\* the service as it starts, and a Board View that has not been opened
Init ==
    /\ InitServer
    /\ boardTasks = <<>>
    /\ form = EmptyForm
    /\ statusFilter = all
    /\ priorityFilter = all
    /\ loading = FALSE
    /\ error = ""
    /\ inflight = <<>>

\* requests whose bodies carry titles: the validation of the title
Next ==
    \/ /\ \E body \in TitleBodies : PostTask(body)
       /\ UNCHANGED client
    \/ /\ \E id \in RequestIds, body \in TitleBodies : PatchTask(id, body)
       /\ UNCHANGED client
    \/ /\ \E id \in RequestIds : DeleteTask(id)
       /\ UNCHANGED client
    \/ /\ \E status \in {Undefined, todo, done} : GetTasks(status, Undefined)
       /\ UNCHANGED client
    \/ /\ Tick
       /\ UNCHANGED client

Spec == Init /\ [][Next]_vars

\* requests whose bodies carry priorities and statuses, in and out of the sets
NextEnum ==
    \/ /\ \E body \in EnumPostBodies : PostTask(body)
       /\ UNCHANGED client
    \/ /\ \E id \in RequestIds, body \in EnumPatchBodies : PatchTask(id, body)
       /\ UNCHANGED client
    \/ /\ \E id \in RequestIds : DeleteTask(id)
       /\ UNCHANGED client
    \/ /\ GetTasks(Undefined, Undefined)
       /\ UNCHANGED client
    \/ /\ Tick
       /\ UNCHANGED client

SpecEnum == Init /\ [][NextEnum]_vars

\* lists filtered on status and priority, over tasks created with either
\* priority and moved to done as the board does
NextList ==
    \/ /\ \E priority \in {Undefined, high} :
            PostTask(Body(Str(<<"a">>), Undefined, priority, Undefined, Undefined))
       /\ UNCHANGED client
    \/ /\ \E id \in RequestIds :
            PatchTask(id, Body(Undefined, Undefined, Undefined, done, Undefined))
       /\ UNCHANGED client
    \/ /\ \E id \in RequestIds : DeleteTask(id)
       /\ UNCHANGED client
    \/ /\ \E status \in {Undefined, Str(<<>>), done}, priority \in {Undefined, high} :
            GetTasks(status, priority)
       /\ UNCHANGED client
    \/ /\ Tick
       /\ UNCHANGED client

SpecList == Init /\ [][NextList]_vars

\* description and dueDate, one supplied at a time: padded text, empty text,
\* a date the parser accepts and one it does not
FieldPairs ==
    {<<Undefined, Undefined>>, <<Str(<<" ", "d">>), Undefined>>, <<Str(<<>>), Undefined>>,
     <<Undefined, Str(<<"2", "0", "2", "4">>)>>, <<Undefined, Str(<<"x">>)>>}

FieldPostBodies ==
    {Body(Str(<<"a">>), f[1], Undefined, Undefined, f[2]) : f \in FieldPairs}

FieldPatchBodies ==
    {Body(Undefined, f[1], Undefined, Undefined, f[2]) : f \in FieldPairs}
        \cup {Body(Str(<<" ">>), Undefined, Undefined, Undefined, Undefined)}

\* requests whose bodies carry descriptions and due dates, and updates of the
\* title
NextFields ==
    \/ /\ \E body \in FieldPostBodies : PostTask(body)
       /\ UNCHANGED client
    \/ /\ \E id \in RequestIds, body \in FieldPatchBodies : PatchTask(id, body)
       /\ UNCHANGED client
    \/ /\ \E id \in RequestIds : DeleteTask(id)
       /\ UNCHANGED client
    \/ /\ GetTasks(Undefined, Undefined)
       /\ UNCHANGED client
    \/ /\ Tick
       /\ UNCHANGED client

SpecFields == Init /\ [][NextFields]_vars

(* ------------------------------ the board in use -------------------- *)

\* the Board View once its first effect has run: the first load is under way.
\* The service is in its durable mode, where the ids the driver hands out
\* bound the tasks a run creates
InitBoard ==
    /\ InitServer
    /\ useDatabase
    /\ boardTasks = <<>>
    /\ form = EmptyForm
    /\ statusFilter = all
    /\ priorityFilter = all
    /\ loading = TRUE
    /\ error = ""
    /\ inflight = <<[req |-> Request("GET", "", NoBody, LoadQuery(all, all)),
                     res |-> NoResponse, before |-> <<>>]>>

\* what the user types into the form
FieldInputs == {<<"title", Str(<<"a">>)>>}

\* the buttons of a card: the statuses other than the card's own
StatusButtons(task) == {done} \ {task.status}

\* the user works the cards and the form, with both filters left on "all",
\* while requests travel, arrive in any order, or fail
NextBoard ==
    \/ \E f \in FieldInputs : setField(f[1], f[2])
    \/ handleCreateTask
    \/ \E k \in 1..Len(boardTasks) : \E option \in StatusButtons(boardTasks[k]) :
         updateTask(boardTasks[k].id, Body(Undefined, Undefined, Undefined, option, Undefined))
    \/ \E k \in 1..Len(boardTasks) : deleteTask(boardTasks[k].id)
    \/ \E i \in 1..Len(inflight) : Serve(i)
    \/ \E i \in 1..Len(inflight) : Receive(i)
    \/ \E i \in 1..Len(inflight) : Reject(i)
    \/ /\ Tick
       /\ UNCHANGED client

SpecBoard == InitBoard /\ [][NextBoard]_vars

\* the user changes the filters, creates tasks and moves cards to done while
\* the requests travel and arrive in any order; no fetch fails, so every load
\* that has settled succeeded
NextFilter ==
    \/ \E value \in {all, done} : setStatusFilter(value)
    \/ \E value \in {all, high} : setPriorityFilter(value)
    \/ \E f \in FieldInputs : setField(f[1], f[2])
    \/ handleCreateTask
    \/ \E k \in 1..Len(boardTasks) : \E option \in StatusButtons(boardTasks[k]) :
         updateTask(boardTasks[k].id, Body(Undefined, Undefined, Undefined, option, Undefined))
    \/ \E i \in 1..Len(inflight) : Serve(i)
    \/ \E i \in 1..Len(inflight) : Receive(i)

SpecFilter == InitBoard /\ [][NextFilter]_vars

(* ------------------------------ the completion rate ----------------- *)

\* bits of the significand of a Number (an IEEE 754 double)
MantissaBits == 53

\* 2^k
RECURSIVE Pow2(_)
Pow2(k) == IF k = 0 THEN 1 ELSE 2 * Pow2(k - 1)

\* The significand is held as its leading 1 followed by four limbs of 13 bits
\* each, so that no step of the arithmetic leaves the integers at hand.
Limb == Pow2((MantissaBits - 1) \div 4)

\* A Number other than 0 is [m, e]: m = <<1, a1, a2, a3, a4>> the significand
\* read as the integer 2^52 + a1 * Limb^3 + a2 * Limb^2 + a3 * Limb + a4, and
\* e the exponent of its last bit, so that the value is m * 2^e. Zero has no
\* significand.
Zero == [m |-> <<>>, e |-> 0]

\* the significand plus one unit of its last bit; the first entry becomes 2
\* when the carry runs through
AddOne(m) ==
    LET s4 == m[5] + 1
        s3 == m[4] + (s4 \div Limb)
        s2 == m[3] + (s3 \div Limb)
        s1 == m[2] + (s2 \div Limb)
    IN <<m[1] + (s1 \div Limb), s1 % Limb, s2 % Limb, s3 % Limb, s4 % Limb>>

\* round to nearest, ties to even: m is the significand kept, e the exponent
\* of its last bit, and rest tells how the part cut off compares with half a
\* unit of the last bit
Rounded(m, e, rest) ==
    IF rest = "above" \/ (rest = "half" /\ m[5] % 2 = 1)
    THEN IF AddOne(m)[1] = 2
         THEN [m |-> <<1, 0, 0, 0, 0>>, e |-> e + 1]
         ELSE [m |-> AddOne(m), e |-> e]
    ELSE [m |-> m, e |-> e]

\* how a part cut off compares with half of the unit it was cut from
CutOff(part, unit) ==
    IF 2 * part > unit THEN "above" ELSE IF 2 * part = unit THEN "half" ELSE "below"

\* the binary digits of d / n that are 0 before its first 1, for 0 < d <= n
RECURSIVE LeadingZeros(_, _)
LeadingZeros(d, n) == IF d >= n THEN 0 ELSE 1 + LeadingZeros(2 * d, n)

\* d / n of two integers 0 <= d <= n, 0 < n: the quotient by long division,
\* a limb at a time, correctly rounded
Divide(d, n) ==
    IF d = 0 THEN Zero
    ELSE LET z == LeadingZeros(d, n)
             r0 == d * Pow2(z) - n
             r1 == (r0 * Limb) % n
             r2 == (r1 * Limb) % n
             r3 == (r2 * Limb) % n
             r4 == (r3 * Limb) % n
         IN Rounded(<<1, (r0 * Limb) \div n, (r1 * Limb) \div n,
                      (r2 * Limb) \div n, (r3 * Limb) \div n>>,
                    0 - (z + MantissaBits - 1),
                    CutOff(r4, n))

\* the position of the first 1 of a positive integer, counted from its last bit
RECURSIVE Log2(_)
Log2(x) == IF x < 2 THEN 0 ELSE 1 + Log2(x \div 2)

\* x * c of a Number and an integer 0 < c < Limb: the exact product, a limb
\* at a time, shifted back to MantissaBits bits and correctly rounded
Times(x, c) ==
    IF x.m = <<>> THEN Zero
    ELSE LET t4 == x.m[5] * c
             t3 == x.m[4] * c + (t4 \div Limb)
             t2 == x.m[3] * c + (t3 \div Limb)
             t1 == x.m[2] * c + (t2 \div Limb)
             t0 == x.m[1] * c + (t1 \div Limb)
             s == Log2(t0)
             cut == Pow2(s)
             kept == Limb \div cut
         IN Rounded(<<t0 \div cut,
                      (t0 % cut) * kept + ((t1 % Limb) \div cut),
                      (t1 % cut) * kept + ((t2 % Limb) \div cut),
                      (t2 % cut) * kept + ((t3 % Limb) \div cut),
                      (t3 % cut) * kept + ((t4 % Limb) \div cut)>>,
                    x.e + s,
                    CutOff(t4 % cut, cut))

\* Math.round(x), for 0 <= x < Limb: floor(x + 0.5)
MathRound(x) ==
    IF x.m = <<>> THEN 0
    ELSE LET w == MantissaBits - 1 + x.e
         IN IF w < 0 - 1 THEN 0
            ELSE IF w = 0 - 1 THEN 1
            ELSE Pow2(w) + (x.m[2] \div (Limb \div Pow2(w)))
                 + ((x.m[2] \div (Limb \div Pow2(w + 1))) % 2)

\* the completionRate memo of the tasks shown
completionRate ==
    IF Len(boardTasks) = 0 THEN 0
    ELSE LET doneCount == Len(SelectSeq(boardTasks, LAMBDA task : task.status = done))
         IN MathRound(Times(Divide(doneCount, Len(boardTasks)), 100))

\* most tasks on the board whose rate is computed
MaxTotal == 40

\* the k-th of the tasks a board shows, not started
Card(k) ==
    [id |-> ObjectId(k), title |-> Str(<<"a">>), description |-> Str(<<>>),
     priority |-> medium, status |-> todo, dueDate |-> Null, createdAt |-> 1]

\* a board at rest showing any number of tasks, none of them done
InitRate ==
    /\ InitServer
    /\ useDatabase
    /\ \E n \in 0..MaxTotal : boardTasks = [k \in 1..n |-> Card(k)]
    /\ form = EmptyForm
    /\ statusFilter = all
    /\ priorityFilter = all
    /\ loading = FALSE
    /\ error = ""
    /\ inflight = <<>>

\* the tasks once the update that moves the k-th card to done is confirmed
Confirmed(k) ==
    /\ boardTasks[k].status # done
    /\ boardTasks' = Replace(boardTasks, boardTasks[k].id,
                             [boardTasks[k] EXCEPT !.status = done])
    /\ UNCHANGED <<form, statusFilter, priorityFilter, loading, error, inflight>>
    /\ UNCHANGED server

\* the cards are moved to done one after the other, from the first
NextRate ==
    \E k \in 1..Len(boardTasks) :
        /\ \A j \in 1..(k - 1) : boardTasks[j].status = done
        /\ Confirmed(k)

SpecRate == InitRate /\ [][NextRate]_vars

(* ------------------------------ reading the state ------------------- *)

\* the tasks of the store in use, serialised, in the order the store keeps them
Stored == IF useDatabase THEN WireOfDocs(collection) ELSE WireOfTasks(inMemoryTasks)

\* the step handles the request recorded in req', of the given method
Handles(method) ==
    /\ req'.method = method
    /\ CASE method = "POST" -> PostTask(req'.body)
         [] method = "PATCH" -> PatchTask(req'.id, req'.body)
         [] method = "DELETE" -> DeleteTask(req'.id)
         [] method = "GET" -> GetTasks(req'.query.status, req'.query.priority)

\* a title that is absent, not a string, empty or made of white space only
BlankTitle(title) ==
    \/ title.t # "string"
    \/ \A i \in 1..Len(title.v) : title.v[i] = " "

HasId(tasks, id) == \E i \in 1..Len(tasks) : tasks[i].id = id

(* ------------------------------ C1 ----------------------------------- *)

\* C1: a POST whose title is absent, not a string, empty or blank is answered
\* with 400, and both stores are after the request exactly what they were before.
C1_BlankTitleRejected ==
    [][(BlankTitle(req'.body.title) /\ Handles("POST"))
        => /\ res'.status = 400
           /\ inMemoryTasks' = inMemoryTasks
           /\ collection' = collection]_vars

\* a blank-titled POST has been answered while the store held a task
C1_Witness ==
    /\ req.method = "POST"
    /\ BlankTitle(req.body.title)
    /\ res.status = 400
    /\ Len(Stored) > 0

(* ------------------------------ C2 ----------------------------------- *)

\* C2: in every reachable state every stored task has a title that is neither
\* empty nor white space only.
C2_TitleNeverBlank == \A i \in 1..Len(Stored) : ~BlankTitle(Stored[i].title)

(* ------------------------------ C3 ----------------------------------- *)

\* C3: in every reachable state no two stored tasks have the same id.
C3_IdsUnique ==
    \A i, j \in 1..Len(Stored) : i # j => Stored[i].id # Stored[j].id

(* ------------------------------ C4 ----------------------------------- *)

\* a value is supplied for the key and lies outside the enumerated set
OutOfSet(x, allowed) == x # Undefined /\ x \notin allowed

\* the index in Stored of the task a PATCH or DELETE with this id resolves
Resolved(id) == CHOOSE i \in 1..Len(Stored) :
                    Stored[i].id = id /\ \A j \in 1..(i - 1) : Stored[j].id # id

\* C4: every stored task has its priority and its status in the enumerated sets;
\* a create that supplies a value outside a set is answered 201 with the default
\* for that field, and an update of an existing task that supplies one is
\* answered 200 with the field as it was.
C4_EnumsKept ==
    [][/\ \A i \in 1..Len(Stored') :
            Stored'[i].priority \in allowedPriority /\ Stored'[i].status \in allowedStatus
       /\ (~BlankTitle(req'.body.title) /\ Handles("POST"))
            => /\ OutOfSet(req'.body.priority, allowedPriority)
                    => res'.status = 201 /\ res'.tasks[1].priority = medium
               /\ OutOfSet(req'.body.status, allowedStatus)
                    => res'.status = 201 /\ res'.tasks[1].status = todo
       /\ (Handles("PATCH") /\ HasId(Stored, req'.id))
            => LET i == Resolved(req'.id)
               IN /\ OutOfSet(req'.body.priority, allowedPriority)
                       => /\ res'.status = 200
                          /\ Stored'[i].priority = Stored[i].priority
                          /\ res'.tasks[1].priority = Stored[i].priority
                  /\ OutOfSet(req'.body.status, allowedStatus)
                       => /\ res'.status = 200
                          /\ Stored'[i].status = Stored[i].status
                          /\ res'.tasks[1].status = Stored[i].status]_vars

\* an update carrying priority "urgent" was answered 200 on a task whose
\* priority is high, next to a task created with status "bogus" that is todo
C4_Witness ==
    /\ req.method = "PATCH"
    /\ req.body.priority = urgent
    /\ res.status = 200
    /\ res.tasks[1].priority = high
    /\ \E i \in 1..Len(Stored) : Stored[i].status = todo /\ Stored[i].id # req.id

(* ------------------------------ C5 ----------------------------------- *)

\* the body supplies a valid value for the field
ValidTitle(x) == ~BlankTitle(x)
ValidDescription(x) == x.t = "string"
ValidPriority(x) == x \in allowedPriority
ValidStatus(x) == x \in allowedStatus
ValidDueDate(x) == x.t = "string" /\ x.v \in ParsableDates

\* C5: a PATCH on an existing task is answered 200 with the resulting record;
\* a field for which the body supplies no valid value keeps its value, id and
\* createdAt keep theirs, every other task and the order of the store are
\* unchanged.
C5_PatchChangesOnlyValidFields ==
    [][(Handles("PATCH") /\ HasId(Stored, req'.id))
        => LET i == Resolved(req'.id)
               b == req'.body
           IN /\ res'.status = 200
              /\ Len(Stored') = Len(Stored)
              /\ res'.tasks = <<Stored'[i]>>
              /\ \A j \in 1..Len(Stored) : j # i => Stored'[j] = Stored[j]
              /\ Stored'[i].id = Stored[i].id
              /\ Stored'[i].createdAt = Stored[i].createdAt
              /\ ~ValidTitle(b.title) => Stored'[i].title = Stored[i].title
              /\ ~ValidDescription(b.description)
                    => Stored'[i].description = Stored[i].description
              /\ ~ValidPriority(b.priority) => Stored'[i].priority = Stored[i].priority
              /\ ~ValidStatus(b.status) => Stored'[i].status = Stored[i].status
              /\ ~ValidDueDate(b.dueDate) => Stored'[i].dueDate = Stored[i].dueDate]_vars

(* ------------------------------ C6 ----------------------------------- *)

\* C6: a PATCH or DELETE on an id that no stored task has is answered with 404
\* and leaves both stores unchanged.
C6_UnknownIdNotFound ==
    [][((Handles("PATCH") \/ Handles("DELETE")) /\ ~HasId(Stored, req'.id))
        => /\ res'.status = 404
           /\ inMemoryTasks' = inMemoryTasks
           /\ collection' = collection]_vars

(* ------------------------------ C7 ----------------------------------- *)

\* s without its i-th element
Without(s, i) == [k \in 1..(Len(s) - 1) |-> IF k < i THEN s[k] ELSE s[k + 1]]

\* C7: once a DELETE is answered with 204 no stored task has that id, so no
\* list shows it and a PATCH or DELETE on it is answered 404; the other tasks
\* are unchanged and keep their order.
C7_DeletedIsGone ==
    [][(Handles("DELETE") /\ res'.status = 204)
        => /\ ~HasId(Stored', req'.id)
           /\ \E i \in 1..Len(Stored) : Stored' = Without(Stored, i)]_vars

(* ------------------------------ C8 ----------------------------------- *)

\* the query supplies a value for the filter
HasValue(q) == q.t = "string" /\ q.v # <<>>

\* the task matches every filter the query supplies
MatchesQuery(task, query) ==
    /\ HasValue(query.status) => task.status = query.status
    /\ HasValue(query.priority) => task.priority = query.priority

Count(s, x) == Cardinality({i \in 1..Len(s) : s[i] = x})

\* the two sequences hold the same elements, each as many times
SameElements(a, b) ==
    /\ Len(a) = Len(b)
    /\ \A i \in 1..Len(a) : Count(a, a[i]) = Count(b, a[i])

\* C8: GET /api/tasks is answered 200 with exactly the stored tasks that match
\* every filter the query supplies, none omitted and none added, and leaves
\* both stores as they were.
C8_ListReturnsMatching ==
    [][Handles("GET")
        => /\ res'.status = 200
           /\ \A i \in 1..Len(res'.tasks) : MatchesQuery(res'.tasks[i], req'.query)
           /\ SameElements(res'.tasks,
                           SelectSeq(Stored, LAMBDA task : MatchesQuery(task, req'.query)))
           /\ inMemoryTasks' = inMemoryTasks
           /\ collection' = collection]_vars

\* a list filtered on status and on priority returned some stored tasks and left
\* out others
C8_Witness ==
    /\ req.method = "GET"
    /\ HasValue(req.query.status)
    /\ HasValue(req.query.priority)
    /\ res.kind = "list"
    /\ Len(res.tasks) > 0
    /\ Len(res.tasks) < Len(Stored)

(* ------------------------------ C9 ----------------------------------- *)

Descending(tasks) ==
    \A i \in 1..(Len(tasks) - 1) : tasks[i].createdAt >= tasks[i + 1].createdAt

\* C9: every list GET /api/tasks returns is ordered by createdAt descending,
\* and an update leaves every task at its place with its createdAt.
C9_ListNewestFirst ==
    [][/\ res'.kind = "list" => Descending(res'.tasks)
       /\ Handles("PATCH")
            => /\ Len(Stored') = Len(Stored)
               /\ \A i \in 1..Len(Stored) :
                    /\ Stored'[i].id = Stored[i].id
                    /\ Stored'[i].createdAt = Stored[i].createdAt]_vars

\* a filtered list returned two tasks created at different instants, the newer
\* first, one of them changed by an update since its creation
C9_Witness ==
    /\ req.method = "GET"
    /\ HasValue(req.query.status)
    /\ res.kind = "list"
    /\ Len(res.tasks) = 2
    /\ res.tasks[1].createdAt > res.tasks[2].createdAt
    /\ \E i \in 1..2 : res.tasks[i].priority = high /\ res.tasks[i].status = done

(* ------------------------------ C10 ---------------------------------- *)

\* the body carries a valid title and nothing else
OnlyTitle(body) ==
    /\ ~BlankTitle(body.title)
    /\ body = Body(body.title, Undefined, Undefined, Undefined, Undefined)

\* C10: a POST whose body carries only a valid title is answered 201 with a
\* record whose priority is medium, status todo, description "" and dueDate
\* null, with id and createdAt populated, and the store holds a record with the
\* same field values.
C10_CreateDefaults ==
    (req.method = "POST" /\ OnlyTitle(req.body))
        => /\ res.status = 201
           /\ res.tasks[1].priority = medium
           /\ res.tasks[1].status = todo
           /\ res.tasks[1].description = Str(<<>>)
           /\ res.tasks[1].dueDate = Null
           /\ res.tasks[1].id # ""
           /\ res.tasks[1].createdAt >= 1
           /\ \E i \in 1..Len(Stored) : Stored[i] = res.tasks[1]

(* ------------------------------ reading the board ------------------- *)

\* the step is the i-th fetch failing: it rejects, or its response arrives
\* with a status outside 2xx
FailsAt(i) ==
    \/ Reject(i)
    \/ /\ inflight[i].res # NoResponse
       /\ inflight[i].res.status \notin 200..299
       /\ Receive(i)

\* the step issues a request
Issues == Len(inflight') > Len(inflight)

\* C11, as stated: when a load, create, update or delete fails (a non-success
\* response or a network error), the tasks after the failure are the tasks the
\* view held when the request was issued and the error is non-empty; issuing
\* a request empties the error.
C11_FailureRestoresIssued ==
    [][/\ \A i \in 1..Len(inflight) :
            FailsAt(i) => boardTasks' = inflight[i].before /\ error' # ""
       /\ Issues => error' = ""]_vars

\* C11, amended: when a load, create, update or delete fails, handling the
\* failure leaves the tasks as they were just before it was handled and the
\* error becomes non-empty; issuing a request empties the error.
C11_FailureKeepsTasks ==
    [][/\ \A i \in 1..Len(inflight) :
            FailsAt(i) => boardTasks' = boardTasks /\ error' # ""
       /\ Issues => error' = ""]_vars

\* a failure has been handled while the board shows tasks
C11_Witness ==
    /\ error \in {"Failed to update task", "Failed to delete task", "Failed to fetch"}
    /\ boardTasks # <<>>
    /\ inflight = <<>>

\* the step is the i-th fetch succeeding: its response arrives with a 2xx status
SucceedsAt(i) ==
    /\ inflight[i].res # NoResponse
    /\ inflight[i].res.status \in 200..299
    /\ Receive(i)

\* C12: the tasks of the Board View change only on a step that handles a
\* successful response, never on a step that issues a request; a confirmed
\* create puts the returned task at the head and keeps the rest, a confirmed
\* update replaces the entries with that id by the returned task and keeps
\* every other entry and the order, a confirmed delete removes the entries
\* with that id and keeps every other entry and the order.
C12_TasksChangeOnConfirm ==
    [][/\ boardTasks' # boardTasks => \E i \in 1..Len(inflight) : SucceedsAt(i)
       /\ Issues => boardTasks' = boardTasks
       /\ \A i \in 1..Len(inflight) :
            SucceedsAt(i) =>
              LET q == inflight[i].req
                  r == inflight[i].res
              IN /\ q.method = "POST" =>
                      /\ Len(boardTasks') = Len(boardTasks) + 1
                      /\ boardTasks'[1] = r.tasks[1]
                      /\ \A k \in 1..Len(boardTasks) : boardTasks'[k + 1] = boardTasks[k]
                 /\ q.method = "PATCH" =>
                      /\ Len(boardTasks') = Len(boardTasks)
                      /\ \A k \in 1..Len(boardTasks) :
                           boardTasks'[k] = IF boardTasks[k].id = q.id
                                            THEN r.tasks[1]
                                            ELSE boardTasks[k]
                 /\ q.method = "DELETE" =>
                      /\ \A k \in 1..Len(boardTasks') : boardTasks'[k].id # q.id
                      /\ boardTasks' = SelectSeq(boardTasks, LAMBDA t : t.id # q.id)]_vars

\* the response of a create has been handled and its task heads two tasks
C12_Witness ==
    /\ inflight = <<>>
    /\ res.status = 201
    /\ Len(boardTasks) = 2
    /\ boardTasks[1] = res.tasks[1]
    /\ boardTasks[2].id # boardTasks[1].id

\* C13: in every reachable state, also when a second request was started
\* before the first settled, the busy flag is true while at least one request
\* of the Board View is still in flight.
C13_BusyWhileInFlight == inflight # <<>> => loading

\* the tasks shown whose status is done
DoneCount == Len(SelectSeq(boardTasks, LAMBDA t : t.status = done))

\* C14: for every task collection the completion rate equals
\* round(100 * d / n), halves rounded up, where n is the number of tasks and
\* d the number whose status is done, and 0 when n = 0; it is an integer
\* between 0 and 100.
C14_RateIsRounded ==
    /\ completionRate \in 0..100
    /\ Len(boardTasks) = 0 => completionRate = 0
    /\ Len(boardTasks) > 0 =>
         completionRate = (2 * 100 * DoneCount + Len(boardTasks)) \div (2 * Len(boardTasks))

\* the task passes the filters selected on the board
Shown(task) ==
    /\ statusFilter # all => task.status = statusFilter
    /\ priorityFilter # all => task.priority = priorityFilter

\* C15: whenever no request of the Board View is in flight and the last load
\* succeeded, every task of its collection matches the selected status and
\* priority filters, also after filter changes whose responses arrive in any
\* order and after confirmed creates and status updates under a filter.
C15_ShownMatchFilters ==
    inflight = <<>> => \A k \in 1..Len(boardTasks) : Shown(boardTasks[k])

====
